---- MODULE Spec2Model ----
(***************************************************************************)
(* Model of todolist_streamlit.py: the sqlite task store, the deadline     *)
(* evaluator check_deadlines, filter_tasks, the per-session scheduler      *)
(* guard and the page script main().                                       *)
(*                                                                         *)
(* Time is counted in seconds since the epoch 1970-01-01 00:00:00.  A      *)
(* stored timestamp is text in DATETIME_FORMAT ('%Y-%m-%d %H:%M'), i.e. a  *)
(* whole number of minutes; it is modelled by that number of minutes.      *)
(***************************************************************************)
EXTENDS Integers, Sequences, FiniteSets

VARIABLES
    store,            \* rows of table tasks, in rowid order
    seq,              \* sqlite_sequence of the AUTOINCREMENT primary key
    now,              \* wall clock, seconds
    session_state,    \* per session: 'scheduler_started' in st.session_state
    jobs,             \* recurring check_deadlines jobs running in the process
    pc,               \* per session: position of the page script
    tasks,            \* per session: the local `tasks` read at line 241
    filter_option,    \* the view filter_tasks was last applied with on its own
    filtered_tasks,   \* the list it returned
    events,           \* output of the last step: what a check_deadlines pass did
    form_message      \* output of the last step: the form called st.error or st.success

vars == <<store, seq, now, session_state, jobs, pc, tasks,
          filter_option, filtered_tasks, events, form_message>>

----------------------------------------------------------------------------
(* Program constants *)

SecondsPerMinute == 60
ApproachMinutes == 30
NearestMinutes == 1440
Epoch == 0

(* Bounds of the model *)

MaxAdds == 2
MaxSnap == 2

Sessions == {"s1", "s2"}

FilterOptions == {"All Tasks", "View Completed Tasks",
                  "View Nearest Deadline Tasks (within 1 day)"}

----------------------------------------------------------------------------
(* Timestamps *)

\* datetime.strftime(DATETIME_FORMAT): seconds are dropped
strftime(dt) == dt \div SecondsPerMinute

\* datetime.strptime(text, DATETIME_FORMAT)
strptime(text) == text * SecondsPerMinute

\* datetime.combine(date_input, time_input): the widgets carry no seconds
combine(minute) == minute * SecondsPerMinute

\* Minutes a user may pick in the form and that stored tasks carry
DeadlineA == NearestMinutes + ApproachMinutes
DeadlineB == ApproachMinutes
NotifyA == NearestMinutes

\* Instants of the wall clock: the second before DeadlineB, that minute
\* (24 hours before DeadlineA) and the second after it; the minute NotifyA
\* (30 minutes before DeadlineA) and the second after it
Instants ==
    { strptime(DeadlineB) + d : d \in {-1, 0, 1} } \cup
    { strptime(NotifyA) + d : d \in {0, 1} }

----------------------------------------------------------------------------
(* Task store (sqlite table tasks) *)

\* One row.  serial is not a column: it numbers the INSERT that made the
\* row, so that a row can be followed independently of its id.
Row(id, name, deadline, notify_time, assigned_by, designation, priority, completed, serial) ==
    [id |-> id, name |-> name, deadline |-> deadline, notify_time |-> notify_time,
     assigned_by |-> assigned_by, designation |-> designation,
     priority |-> priority, completed |-> completed, serial |-> serial]

Ids(rows) == { rows[i].id : i \in DOMAIN rows }

MaxOf(S) == IF S = {} THEN 0 ELSE CHOOSE m \in S : \A x \in S : x <= m

\* INSERT without AUTOINCREMENT: the rowid after the largest one present
add_task_rowid(rows, sq, name, deadline, notify_time, assigned_by, designation, priority) ==
    [store |-> Append(rows, Row(MaxOf(Ids(rows)) + 1, name, deadline, notify_time,
                                assigned_by, designation, priority, 0, sq + 1)),
     seq |-> sq + 1]

\* INSERT with completed given as 1
add_task_done(rows, sq, name, deadline, notify_time, assigned_by, designation, priority) ==
    [store |-> Append(rows, Row(sq + 1, name, deadline, notify_time,
                                assigned_by, designation, priority, 1, sq + 1)),
     seq |-> sq + 1]

\* INSERT INTO tasks (...) VALUES (?, ?, ?, ?, ?, ?, 0); id INTEGER PRIMARY
\* KEY AUTOINCREMENT takes the value after the largest id ever given
add_task(rows, sq, name, deadline, notify_time, assigned_by, designation, priority) ==
    [store |-> Append(rows, Row(sq + 1, name, deadline, notify_time,
                                assigned_by, designation, priority, 0, sq + 1)),
     seq |-> sq + 1]

\* SELECT ... FROM tasks
get_tasks == store

SetColumns(r, name, deadline, notify_time, assigned_by, designation, priority, completed) ==
    [r EXCEPT !.name = name, !.deadline = deadline, !.notify_time = notify_time,
              !.assigned_by = assigned_by, !.designation = designation,
              !.priority = priority, !.completed = completed]

\* INSERT OR REPLACE: writes the row whether or not the id exists
update_task_upsert(rows, task_id, name, deadline, notify_time, assigned_by, designation, priority, completed) ==
    IF task_id \in Ids(rows)
    THEN [i \in DOMAIN rows |->
            IF rows[i].id = task_id
            THEN SetColumns(rows[i], name, deadline, notify_time, assigned_by,
                            designation, priority, completed)
            ELSE rows[i]]
    ELSE Append(rows, Row(task_id, name, deadline, notify_time, assigned_by,
                          designation, priority, completed, task_id))

\* UPDATE tasks SET ... WHERE id=?
update_task(rows, task_id, name, deadline, notify_time, assigned_by, designation, priority, completed) ==
    [i \in DOMAIN rows |->
        IF rows[i].id = task_id
        THEN SetColumns(rows[i], name, deadline, notify_time, assigned_by,
                        designation, priority, completed)
        ELSE rows[i]]

\* DELETE FROM tasks WHERE id=?
delete_task(rows, task_id) ==
    LET Keep(r) == r.id # task_id IN SelectSeq(rows, Keep)

----------------------------------------------------------------------------
(* Deadline evaluator *)

Event(task, kind) == [id |-> task.id, kind |-> kind]

\* The loop body without the test of line 103
TaskCalls_noskip(task, t) ==
    LET deadline_dt == strptime(task.deadline)
        notify_dt == strptime(task.notify_time)
    IN  (IF t >= notify_dt /\ notify_dt > Epoch
         THEN <<[id |-> task.id, kind |-> "notification time reached"]>>
         ELSE <<>>)
        \o
        (IF deadline_dt < t
         THEN <<[id |-> task.id, kind |-> "overdue"]>>
         ELSE IF deadline_dt - t < strptime(ApproachMinutes)
              THEN <<[id |-> task.id, kind |-> "approaching"]>>
              ELSE <<>>)

\* The notification.notify calls one iteration of the loop of
\* check_deadlines makes for a row, in order (lines 100-134)
TaskCalls(task, t) ==
    IF task.completed # 0
    THEN <<>>
    ELSE LET deadline_dt == strptime(task.deadline)
             notify_dt == strptime(task.notify_time)
         IN  (IF t >= notify_dt /\ notify_dt > Epoch
              THEN <<Event(task, "notification time reached")>>
              ELSE <<>>)
             \o
             (IF deadline_dt < t
              THEN <<Event(task, "overdue")>>
              ELSE IF deadline_dt - t < strptime(ApproachMinutes)
                   THEN <<Event(task, "approaching")>>
                   ELSE <<>>)

\* The calls of a whole pass over rows, when none of them raises
RECURSIVE PassCalls(_, _)
PassCalls(rows, t) ==
    IF rows = <<>> THEN <<>>
    ELSE TaskCalls(Head(rows), t) \o PassCalls(Tail(rows), t)

\* One pass of check_deadlines over rows at wall-clock time t.  failAt is
\* the notification.notify call that raises (none when it is not the
\* number of a call): the exception leaves the for loop and the function,
\* so the calls after it are never made.  emitted lists the calls made,
\* the raising one included.
check_deadlines(rows, t, failAt) ==
    LET calls == PassCalls(rows, t)
    IN  IF failAt \in DOMAIN calls
        THEN [ran |-> TRUE, emitted |-> SubSeq(calls, 1, failAt), raised |-> TRUE]
        ELSE [ran |-> TRUE, emitted |-> calls, raised |-> FALSE]

\* The notification.notify calls of a pass that may raise, and 0 for none
FailPoints(rows, t) == 0..Len(PassCalls(rows, t))

----------------------------------------------------------------------------
(* Filter selector *)

Completed(task) == task.completed = 1

\* filter_tasks with <= in place of < at line 154
filter_tasks_le(rows, filter_option_, t) ==
    IF filter_option_ = "View Completed Tasks"
    THEN SelectSeq(rows, Completed)
    ELSE IF filter_option_ = "View Nearest Deadline Tasks (within 1 day)"
         THEN LET Near(task) ==
                      /\ task.completed = 0
                      /\ strptime(task.deadline) - t <= strptime(NearestMinutes)
              IN  SelectSeq(rows, Near)
         ELSE rows

\* filter_tasks(tasks, filter_option) with now = t (lines 141-158)
filter_tasks(rows, filter_option_, t) ==
    IF filter_option_ = "View Completed Tasks"
    THEN SelectSeq(rows, Completed)
    ELSE IF filter_option_ = "View Nearest Deadline Tasks (within 1 day)"
         THEN LET Near(task) ==
                      /\ task.completed = 0
                      /\ strptime(task.deadline) - t < strptime(NearestMinutes)
              IN  SelectSeq(rows, Near)
         ELSE rows

----------------------------------------------------------------------------
(* Page script main() *)

Form(name, assigned_by, designation, priority, deadline, notify) ==
    [name |-> name, assigned_by |-> assigned_by, designation |-> designation,
     priority |-> priority, deadline |-> deadline, notify |-> notify]

\* What a user may submit in add_task_form: deadline and notify are the
\* minutes picked with the date and time widgets
FormInputs ==
    { Form("a", "x", "d", "High", DeadlineA, NotifyA),
      Form("b", "y", "e", "Low", DeadlineB, NotifyA),
      Form("", "x", "d", "High", DeadlineA, NotifyA),
      Form("a", "", "d", "High", DeadlineA, NotifyA),
      Form("a", "x", "", "High", DeadlineA, NotifyA) }

\* The checks of lines 218-228 with the notify time left unchecked
form_valid_deadline_only(f, t) ==
    /\ f.name # ""
    /\ f.assigned_by # ""
    /\ f.designation # ""
    /\ ~ (combine(f.deadline) < t)

\* The checks of lines 218-228: TRUE when the else branch of line 230 runs
form_valid(f, t) ==
    /\ f.name # ""
    /\ f.assigned_by # ""
    /\ f.designation # ""
    /\ ~ (combine(f.deadline) < t \/ combine(f.notify) < t)

NoEvents == [ran |-> FALSE, emitted |-> <<>>, raised |-> FALSE]

\* A step in which check_deadlines is not called
NoPass == events' = NoEvents

\* A step in which no form is submitted
NoForm == form_message' = ""

\* A step in which filter_tasks is not called
NoFilter == filter_option' = "" /\ filtered_tasks' = <<>>

\* init_scheduler(): guarded by the session's own st.session_state
init_scheduler(s) ==
    IF ~ session_state[s]
    THEN /\ jobs' = jobs + 1
         /\ session_state' = [session_state EXCEPT ![s] = TRUE]
    ELSE UNCHANGED <<jobs, session_state>>

\* A run of main() without a form submission, up to tasks = get_tasks()
Load(s) ==
    /\ pc[s] = "idle"
    /\ init_scheduler(s)
    /\ tasks' = [tasks EXCEPT ![s] = get_tasks]
    /\ pc' = [pc EXCEPT ![s] = "loaded"]
    /\ NoFilter /\ NoPass /\ NoForm
    /\ UNCHANGED <<store, seq, now>>

\* A run of main() with add_task_form submitted with f.  A valid form is
\* stored and st.rerun() restarts the script; after an invalid one the
\* script goes on to tasks = get_tasks()
Submit(s, f) ==
    /\ pc[s] = "idle"
    /\ init_scheduler(s)
    /\ IF form_valid(f, now)
       THEN /\ seq < MaxAdds
            /\ LET r == add_task(store, seq, f.name,
                                 strftime(combine(f.deadline)),
                                 strftime(combine(f.notify)),
                                 f.assigned_by, f.designation, f.priority)
               IN  /\ store' = r.store
                   /\ seq' = r.seq
            /\ UNCHANGED <<pc, tasks>>
       ELSE /\ tasks' = [tasks EXCEPT ![s] = get_tasks]
            /\ pc' = [pc EXCEPT ![s] = "loaded"]
            /\ UNCHANGED <<store, seq>>
    /\ form_message' = IF form_valid(f, now) THEN "st.success" ELSE "st.error"
    /\ NoFilter /\ NoPass
    /\ UNCHANGED now

\* The value update_task is given for completed at lines 276 and 280
Flipped(task) == IF task.completed # 0 THEN 0 ELSE 1

\* Row j of the list read at line 241 is in the list filter_tasks returns
\* for some view, so that the display loop reaches its widgets
Displayed(s, j) ==
    \E o \in FilterOptions :
        LET shown == filter_tasks(tasks[s], o, now)
        IN  \E k \in DOMAIN shown : shown[k] = tasks[s][j]

\* The display loop reaches row j of the list read and its checkbox
\* differs from the completed flag read: update_task with the fields read
\* and the flipped flag, then st.rerun()
Toggle(s, j) ==
    /\ pc[s] = "loaded"
    /\ j \in DOMAIN tasks[s]
    /\ pc' = [pc EXCEPT ![s] = "idle"]
    /\ tasks' = [tasks EXCEPT ![s] = <<>>]
    /\ Displayed(s, j)
    /\ LET task == tasks[s][j]
       IN  store' = update_task(store, task.id, task.name, task.deadline,
                                task.notify_time, task.assigned_by,
                                task.designation, task.priority, Flipped(task))
    /\ NoFilter /\ NoPass /\ NoForm
    /\ UNCHANGED <<seq, now, session_state, jobs>>

\* The display loop reaches row j of the list read and its delete button
\* was clicked: delete_task, then st.rerun()
Delete(s, j) ==
    /\ pc[s] = "loaded"
    /\ j \in DOMAIN tasks[s]
    /\ pc' = [pc EXCEPT ![s] = "idle"]
    /\ tasks' = [tasks EXCEPT ![s] = <<>>]
    /\ Displayed(s, j)
    /\ store' = delete_task(store, tasks[s][j].id)
    /\ NoFilter /\ NoPass /\ NoForm
    /\ UNCHANGED <<seq, now, session_state, jobs>>

\* No widget of the display loop acts (or there is nothing to display):
\* the script ends with check_deadlines()
Finish(s, failAt) ==
    /\ pc[s] = "loaded"
    /\ NoFilter
    /\ events' = check_deadlines(get_tasks, now, failAt)
    /\ pc' = [pc EXCEPT ![s] = "idle"]
    /\ tasks' = [tasks EXCEPT ![s] = <<>>]
    /\ NoForm
    /\ UNCHANGED <<store, seq, now, session_state, jobs>>

\* A recurring job added at line 169 fires
Job(failAt) ==
    /\ jobs > 0
    /\ events' = check_deadlines(get_tasks, now, failAt)
    /\ NoFilter /\ NoForm
    /\ UNCHANGED <<store, seq, now, session_state, jobs, pc, tasks>>

\* The wall clock moves on
Tick ==
    /\ \E t \in Instants : t > now /\ now' = t
    /\ NoFilter /\ NoPass /\ NoForm
    /\ UNCHANGED <<store, seq, session_state, jobs, pc, tasks>>

\* The process starts on a new database: init_db creates the empty table
Init ==
    /\ store = <<>>
    /\ seq = 0
    /\ now \in Instants
    /\ session_state = [s \in Sessions |-> FALSE]
    /\ jobs = 0
    /\ pc = [s \in Sessions |-> "idle"]
    /\ tasks = [s \in Sessions |-> <<>>]
    /\ filter_option = ""
    /\ filtered_tasks = <<>>
    /\ events = NoEvents
    /\ form_message = ""

Next ==
    \/ \E s \in Sessions : Load(s)
    \/ \E s \in Sessions, f \in FormInputs : Submit(s, f)
    \/ \E s \in Sessions : \E j \in DOMAIN tasks[s] : Toggle(s, j)
    \/ \E s \in Sessions : \E j \in DOMAIN tasks[s] : Delete(s, j)
    \/ \E s \in Sessions, k \in FailPoints(store, now) : Finish(s, k)
    \/ \E k \in FailPoints(store, now) : Job(k)
    \/ Tick

Spec == Init /\ [][Next]_vars

----------------------------------------------------------------------------
(* The evaluator and the filter on their own, over every snapshot of up to *)
(* MaxSnap rows and every instant                                          *)

SnapRows(i) ==
    { Row(i, "a", d, n, "x", "d", "High", c, i) :
        d \in {DeadlineA, DeadlineB}, n \in {Epoch, NotifyA}, c \in {0, 1} }

SnapStores ==
    UNION { { q \in [1..n -> UNION { SnapRows(i) : i \in 1..n }] :
                \A i \in 1..n : q[i] \in SnapRows(i) } : n \in 0..MaxSnap }

\* filter_tasks applied to the stored rows
ApplyFilter(filter_option_) ==
    /\ filter_option' = filter_option_
    /\ filtered_tasks' = filter_tasks(get_tasks, filter_option_, now)
    /\ NoPass /\ NoForm
    /\ UNCHANGED <<store, seq, now, session_state, jobs, pc, tasks>>

InitEval ==
    /\ store \in SnapStores
    /\ seq = Len(store)
    /\ now \in Instants
    /\ session_state = [s \in Sessions |-> FALSE]
    /\ jobs = 1
    /\ pc = [s \in Sessions |-> "idle"]
    /\ tasks = [s \in Sessions |-> <<>>]
    /\ filter_option = ""
    /\ filtered_tasks = <<>>
    /\ events = NoEvents
    /\ form_message = ""

NextEval ==
    \/ \E k \in FailPoints(store, now) : Job(k)
    \/ \E o \in FilterOptions : ApplyFilter(o)

SpecEval == InitEval /\ [][NextEval]_vars

----------------------------------------------------------------------------
(* Properties.  What is due for a row is restated here from the deadline,  *)
(* the notify time and the clock, without the evaluator's operators.       *)

\* Number of events of one kind emitted for one id in the last pass
Count(id, kind) ==
    Cardinality({ k \in DOMAIN events.emitted :
                    events.emitted[k] = [id |-> id, kind |-> kind] })

Incomplete == { i \in DOMAIN store : store[i].completed = 0 }

DeadlineSeconds(i) == store[i].deadline * SecondsPerMinute
NotifySeconds(i) == store[i].notify_time * SecondsPerMinute

\* C1: after a pass, every incomplete row has exactly one "overdue" event
\* and no "approaching" event when its deadline is before now, exactly one
\* "approaching" and no "overdue" event when 0 <= deadline - now < 30
\* minutes, and neither when deadline - now >= 30 minutes.
C1_DeadlineEventDecided ==
    events.ran =>
        \A i \in Incomplete :
            LET d == DeadlineSeconds(i) - now
                id == store[i].id
            IN  /\ d < 0 =>
                    Count(id, "overdue") = 1 /\ Count(id, "approaching") = 0
                /\ (0 <= d /\ d < ApproachMinutes * SecondsPerMinute) =>
                    Count(id, "approaching") = 1 /\ Count(id, "overdue") = 0
                /\ d >= ApproachMinutes * SecondsPerMinute =>
                    Count(id, "approaching") = 0 /\ Count(id, "overdue") = 0

\* C2: after a pass, no event of any kind carries the id of a row with
\* completed = true, whatever its deadline and notify time.
C2_CompletedSilent ==
    events.ran =>
        \A i \in DOMAIN store :
            store[i].completed = 1 =>
                \A k \in DOMAIN events.emitted : events.emitted[k].id # store[i].id

\* A pass ran over a completed row that is overdue and whose notify time
\* is reached, next to an incomplete row that got an event
C2_Witness ==
    /\ events.ran
    /\ events.emitted # <<>>
    /\ \E i \in DOMAIN store :
        /\ store[i].completed = 1
        /\ DeadlineSeconds(i) < now
        /\ NotifySeconds(i) > Epoch
        /\ now >= NotifySeconds(i)

\* C3: after a pass, an incomplete row has a "notification time reached"
\* event if and only if now >= notifyTime and notifyTime is after the
\* epoch sentinel.
C3_NotifyIffReached ==
    events.ran =>
        \A i \in Incomplete :
            Count(store[i].id, "notification time reached") >= 1
                <=> (now >= NotifySeconds(i) /\ NotifySeconds(i) > Epoch)

\* Position in the store of the row whose notification.notify call raised:
\* the row of the last call made
RaisedAt ==
    CHOOSE i \in DOMAIN store :
        store[i].id = events.emitted[Len(events.emitted)].id

\* C8: a pass in which a notification.notify call raised still emits, for
\* every row after the one the call was for, each event that is due for it.
C8_FailureDoesNotAbort ==
    (events.ran /\ events.raised) =>
        \A i \in Incomplete :
            i > RaisedAt =>
                LET d == DeadlineSeconds(i) - now
                    id == store[i].id
                IN  /\ (now >= NotifySeconds(i) /\ NotifySeconds(i) > Epoch) =>
                        Count(id, "notification time reached") = 1
                    /\ d < 0 => Count(id, "overdue") = 1
                    /\ (0 <= d /\ d < ApproachMinutes * SecondsPerMinute) =>
                        Count(id, "approaching") = 1

\* The view's test of a row, as the views are documented
InView(option, r) ==
    IF option = "View Completed Tasks" THEN r.completed = 1
    ELSE IF option = "View Nearest Deadline Tasks (within 1 day)"
         THEN r.completed = 0 /\
              r.deadline * SecondsPerMinute - now < NearestMinutes * SecondsPerMinute
    ELSE TRUE

Kept(option) == { i \in DOMAIN store : InView(option, store[i]) }

\* The k-th position of the store, in order, among those the view keeps
KeptAt(option, k) ==
    CHOOSE i \in Kept(option) :
        Cardinality({ j \in Kept(option) : j < i }) = k - 1

\* C4: the list filter_tasks returns for a view holds exactly the stored
\* rows the view keeps, in the order of the store (all rows for 'All
\* Tasks', the completed ones for 'View Completed Tasks', the incomplete
\* ones with deadline - now < 24 hours, overdue ones included, for 'View
\* Nearest Deadline Tasks'), and filtering that list again returns it.
C4_FilterSubsequence ==
    filter_option # "" =>
        /\ Len(filtered_tasks) = Cardinality(Kept(filter_option))
        /\ \A k \in DOMAIN filtered_tasks :
              filtered_tasks[k] = store[KeptAt(filter_option, k)]
        /\ filter_option = "All Tasks" => filtered_tasks = store
        /\ filter_tasks(filtered_tasks, filter_option, now) = filtered_tasks

\* The nearest-deadline view was applied, kept an overdue row and dropped
\* another row
C4_Witness ==
    /\ filter_option = "View Nearest Deadline Tasks (within 1 day)"
    /\ Len(filtered_tasks) < Len(store)
    /\ \E k \in DOMAIN filtered_tasks :
          filtered_tasks[k].deadline * SecondsPerMinute < now

\* A form the five checks reject at the current time
Rejected(f) ==
    \/ f.name = ""
    \/ f.assigned_by = ""
    \/ f.designation = ""
    \/ f.deadline * SecondsPerMinute < now
    \/ f.notify * SecondsPerMinute < now

\* C5: a submission with an empty name, assignedBy or designation, or with
\* a deadline or notify time before now, inserts nothing and leaves the
\* store as it was; any other submission appends exactly one row, made of
\* the form's fields.
C5_RejectedLeavesStore ==
    [][\A s \in Sessions, f \in FormInputs :
          Submit(s, f) =>
              IF Rejected(f)
              THEN store' = store /\ seq' = seq
              ELSE /\ Len(store') = Len(store) + 1
                   /\ \A i \in DOMAIN store : store'[i] = store[i]
                   /\ LET r == store'[Len(store')]
                      IN  /\ r.name = f.name
                          /\ r.deadline = f.deadline
                          /\ r.notify_time = f.notify
                          /\ r.assigned_by = f.assigned_by
                          /\ r.designation = f.designation
                          /\ r.priority = f.priority]_vars

\* A submission has just been rejected while an accepted one is stored
C5_Witness ==
    /\ form_message = "st.error"
    /\ store # <<>>

\* C6: a toggle of a row that is still stored changes that row's completed
\* flag to the flipped value and nothing else in the store; on a row read
\* as it is stored the flag goes 0 -> 1 or 1 -> 0, so two toggles in a row
\* restore the record.
C6_ToggleChangesOnlyCompleted ==
    [][\A s \in Sessions : \A j \in DOMAIN tasks[s] :
          (Toggle(s, j) /\ tasks[s][j].id \in Ids(store)) =>
              /\ Len(store') = Len(store)
              /\ \A i \in DOMAIN store :
                    IF store[i].id = tasks[s][j].id
                    THEN /\ store'[i] = [store[i] EXCEPT !.completed =
                                            IF tasks[s][j].completed = 0 THEN 1 ELSE 0]
                         /\ tasks[s][j] = store[i] =>
                                store'[i].completed = 1 - store[i].completed
                    ELSE store'[i] = store[i]]_vars

\* A row has been toggled to completed next to a row that is not
C6_Witness ==
    \E i, j \in DOMAIN store :
        store[i].completed = 1 /\ store[j].completed = 0

\* C7: at most one recurring check_deadlines job is active in the process.
C7_OneJob == jobs <= 1

\* C9: stored ids are pairwise distinct; a row keeps its id as long as it
\* is stored; a new row has completed = false; a check_deadlines pass
\* leaves the store unchanged.
C9_StoreInvariants ==
    /\ [](\A i, j \in DOMAIN store : store[i].id = store[j].id => i = j)
    /\ [][/\ \A i \in DOMAIN store : \A j \in DOMAIN store' :
                store[i].serial = store'[j].serial => store[i].id = store'[j].id
          /\ \A j \in DOMAIN store' :
                (\A i \in DOMAIN store : store[i].serial # store'[j].serial)
                    => store'[j].completed = 0
          /\ events'.ran => store' = store]_vars

\* After an add, a delete, a second add and a toggle, a pass has just run
\* over a store that holds the second row alone
C9_Witness ==
    /\ events.ran
    /\ Len(store) = 1
    /\ store[1].id = 2
    /\ store[1].completed = 1

\* C10: a toggle written back for an id that is no longer stored leaves
\* the store unchanged, and no toggle adds a row or alters a row of
\* another id.
C10_StaleToggleIsNoop ==
    [][\A s \in Sessions : \A j \in DOMAIN tasks[s] :
          Toggle(s, j) =>
              /\ tasks[s][j].id \notin Ids(store) => store' = store
              /\ Len(store') = Len(store)
              /\ \A i \in DOMAIN store :
                    store[i].id # tasks[s][j].id => store'[i] = store[i]]_vars

\* A session can write back a toggle for a row another session has
\* deleted since it was read, while other rows are stored
C10_Witness ==
    \E s \in Sessions : \E j \in DOMAIN tasks[s] :
        /\ tasks[s][j].id \notin Ids(store)
        /\ store # <<>>
        /\ ENABLED Toggle(s, j)

====
